---- MODULE Spec2Model ----
(***************************************************************************)
(* Model of bmfont-rust, src/lib.rs: the font model (BMFont) and the lazy  *)
(* layout pipeline TextLines -> TextLine -> CharPositions.                 *)
(*                                                                         *)
(* A string is a sequence of code points.  Line splitting is that of       *)
(* str::lines() on text whose only line terminator is LF.  All arithmetic  *)
(* of the model stays far inside the i32 range, so + and - agree with the  *)
(* machine operations.                                                     *)
(***************************************************************************)
EXTENDS Integers, Sequences, FiniteSets, TLC

(* ----------------------------- bounds ---------------------------------- *)
\* longest input string passed to char_positions
MaxLen == 3
\* most char records in a font
MaxChars == 2
\* most kerning records in a font
MaxKern == 1
\* next() requests allowed beyond the length of the string
ExtraCalls == 2

(* ------------------------ code points and records ---------------------- *)
\* the line terminator str::lines() splits on
LF == 10

\* LF, 'A', 'B' and U+10000 (the first code point outside the BMP)
CodePoints == {LF, 65, 66, 65536}

\* struct Char
CharA == [id |-> 65, x |-> 0, y |-> 0, width |-> 8, height |-> 8,
          xoffset |-> 0, yoffset |-> 0, xadvance |-> 10, page_index |-> 0]
CharA2 == [id |-> 65, x |-> 24, y |-> 8, width |-> 4, height |-> 5,
           xoffset |-> 3, yoffset |-> 1, xadvance |-> 5, page_index |-> 2]
CharB == [id |-> 66, x |-> 8, y |-> 16, width |-> 6, height |-> 9,
          xoffset |-> 1, yoffset |-> 2, xadvance |-> 7, page_index |-> 1]
CharZ == [id |-> 65536, x |-> 14, y |-> 32, width |-> 5, height |-> 7,
          xoffset |-> 2, yoffset |-> 3, xadvance |-> 6, page_index |-> 0]
\* the char lines a font source may hold, in source order
CharLines == <<CharA, CharA2, CharB, CharZ>>

\* struct KerningValue
KernAA == [first_char_id |-> 65, second_char_id |-> 65, value |-> -2]
KernAA2 == [first_char_id |-> 65, second_char_id |-> 65, value |-> 4]
KernAB == [first_char_id |-> 65, second_char_id |-> 66, value |-> 3]
Kern0A == [first_char_id |-> 0, second_char_id |-> 65, value |-> -3]
\* the kerning lines a font source may hold, in source order
KerningLines == <<KernAA, KernAA2, KernAB, Kern0A>>

\* struct Page
Page0 == [id |-> 0, filename |-> "font_0.png"]
Page1 == [id |-> 1, filename |-> "font_1.png"]

\* enum OrdinateOrientation
Orientations == {"BottomToTop", "TopToBottom"}

RECURSIVE SeqsUpTo(_, _)
\* all sequences over S of length at most n
SeqsUpTo(S, n) ==
    IF n = 0 THEN {<<>>}
    ELSE LET shorter == SeqsUpTo(S, n - 1)
         IN  shorter \cup {Append(s, e) : s \in {t \in shorter : Len(t) = n - 1}, e \in S}

RECURSIVE PickFrom(_, _, _)
\* the elements of master at the indices I (from i on), in order
PickFrom(master, I, i) ==
    IF i > Len(master) THEN <<>>
    ELSE (IF i \in I THEN <<master[i]>> ELSE <<>>) \o PickFrom(master, I, i + 1)

\* the subsequences of master with at most n elements
SubSeqsOf(master, n) ==
    {PickFrom(master, I, 1) :
        I \in {J \in SUBSET (1..Len(master)) : Cardinality(J) <= n}}

Texts == SeqsUpTo(CodePoints, MaxLen)

\* struct BMFont (pages are not read by the layout engine)
Fonts ==
    [base_height : {10},
     line_height : {12},
     pages : {<<Page0, Page1>>},
     characters : SubSeqsOf(CharLines, MaxChars),
     kerning_values : SubSeqsOf(KerningLines, MaxKern),
     ordinate_orientation : Orientations]

(* ------------------------------ casts ---------------------------------- *)
\* `v as i32` for a u32 v
AsI32(v) == IF v > 2147483647 THEN (v - 2147483647) - 2147483647 - 2 ELSE v

(* -------------------------- str::lines() ------------------------------- *)
RECURSIVE SplitLF(_)
\* the pieces of s between its LFs (n LFs give n + 1 pieces)
SplitLF(s) ==
    IF s = <<>> THEN << <<>> >>
    ELSE LET rest == SplitLF(Tail(s))
         IN  IF Head(s) = LF THEN << <<>> >> \o rest
             ELSE << <<Head(s)>> \o Head(rest) >> \o Tail(rest)

\* string.lines(): the final line terminator is optional, so a last
\* empty piece is no line
Lines(s) ==
    LET p == SplitLF(s)
    IN  IF p[Len(p)] = <<>> THEN SubSeq(p, 1, Len(p) - 1) ELSE p

(* --------------------------- TextLine::next ---------------------------- *)
\* mutant: every code point taken for one UTF-16 unit
LenUtf16_AlwaysOne(c) == 1

\* char::len_utf16
LenUtf16(c) == IF c < 65536 THEN 1 ELSE 2

\* mutant: the last matching Char wins (as a keyed map filled in source order)
FindChar_LastMatch(all_chars, char_id) ==
    LET hits == {i \in 1..Len(all_chars) : all_chars[i].id = char_id}
    IN  IF hits = {} THEN 0 ELSE CHOOSE i \in hits : \A j \in hits : i >= j

\* all_chars.iter().find(|c| c.id == char_id): index of the first match, 0 if none
FindChar(all_chars, char_id) ==
    LET hits == {i \in 1..Len(all_chars) : all_chars[i].id = char_id}
    IN  IF hits = {} THEN 0 ELSE CHOOSE i \in hits : \A j \in hits : i <= j

NoChar == [id |-> 0, x |-> 0, y |-> 0, width |-> 0, height |-> 0,
           xoffset |-> 0, yoffset |-> 0, xadvance |-> 0, page_index |-> 0]

\* TextLine::next: the rest of the line and None | Ok(found) | Err(..(c))
TextLineNext(all_chars, chars) ==
    IF chars = <<>>
    THEN [chars |-> chars, ret |-> "None", c |-> 0, found |-> NoChar]
    ELSE LET c == Head(chars)
             i == FindChar(all_chars, c)
         IN  IF LenUtf16(c) # 1
             THEN [chars |-> Tail(chars), ret |-> "UnsupportedCharacter",
                   c |-> c, found |-> NoChar]
             ELSE IF i # 0
             THEN [chars |-> Tail(chars), ret |-> "Ok", c |-> c,
                   found |-> all_chars[i]]
             ELSE [chars |-> Tail(chars), ret |-> "MissingCharacter",
                   c |-> c, found |-> NoChar]

(* ------------------------- CharPositions::next ------------------------- *)
\* kerning_values.iter().find(..).map(|k| k.value).unwrap_or(0)
FindKerning(kerning_values, prev_char_id, char_id) ==
    LET hits == {i \in 1..Len(kerning_values) :
                    /\ kerning_values[i].first_char_id = prev_char_id
                    /\ kerning_values[i].second_char_id = char_id}
    IN  IF hits = {} THEN 0
        ELSE kerning_values[CHOOSE i \in hits : \A j \in hits : i <= j].value

\* mutant: the line advance ignores the orientation
AdvanceY_AlwaysDown(f, y) == y + f.line_height

\* the pen y after a line advance
AdvanceY(f, y) ==
    IF f.ordinate_orientation = "TopToBottom"
    THEN y + AsI32(f.line_height)
    ELSE y - AsI32(f.line_height)

\* mutant: the kerning value left out of screen_x
ScreenX_NoKerning(x, character, kerning_value) == x + character.xoffset

\* screen_x
ScreenX(x, character, kerning_value) == x + character.xoffset + kerning_value

\* mutant: BottomToTop without the character's height
ScreenY_NoHeight(f, y, character) ==
    IF f.ordinate_orientation = "BottomToTop"
    THEN y + f.base_height - character.yoffset
    ELSE y + character.yoffset

\* screen_y
ScreenY(f, y, character) ==
    IF f.ordinate_orientation = "BottomToTop"
    THEN y + AsI32(f.base_height) - character.yoffset - AsI32(character.height)
    ELSE y + character.yoffset

\* mutant: the pen advances by xadvance alone
AdvanceX_NoKerning(x, character, kerning_value) == x + character.xadvance

\* self.x += character.xadvance + kerning_value
AdvanceX(x, character, kerning_value) == x + character.xadvance + kerning_value

NoRect == [x |-> 0, y |-> 0, width |-> 0, height |-> 0]
NoPosition == [page_rect |-> NoRect, screen_rect |-> NoRect, page_index |-> 0]

\* What one next() request gives back.  kind, err, c and position are the
\* returned Option<Result<CharPosition, CharError>>; character,
\* kerning_value, pen_x and pen_y record the locals of the request.
NoneItem ==
    [kind |-> "None", err |-> "", c |-> 0, position |-> NoPosition,
     character |-> NoChar, kerning_value |-> 0, pen_x |-> 0, pen_y |-> 0]

ErrItem(err, c) == [NoneItem EXCEPT !.kind = "Err", !.err = err, !.c = c]

\* mutant: the atlas rectangle is flipped with the screen for BottomToTop
Place_PageRectFlipped(f, it, character) ==
    LET kerning_value ==
            FindKerning(f.kerning_values, it.prev_char_id, character.id)
        page_rect == [x |-> character.x,
                      y |-> IF f.ordinate_orientation = "BottomToTop"
                            THEN 0 - character.y - character.height
                            ELSE character.y,
                      width |-> character.width, height |-> character.height]
        screen_rect == [x |-> ScreenX(it.x, character, kerning_value),
                        y |-> ScreenY(f, it.y, character),
                        width |-> character.width, height |-> character.height]
    IN  [it |-> [it EXCEPT !.x = AdvanceX(it.x, character, kerning_value),
                           !.prev_char_id = character.id],
         item |-> [kind |-> "Ok", err |-> "", c |-> character.id,
                   position |-> [page_rect |-> page_rect,
                                 screen_rect |-> screen_rect,
                                 page_index |-> character.page_index],
                   character |-> character, kerning_value |-> kerning_value,
                   pen_x |-> it.x, pen_y |-> it.y]]

\* the part of next() after `character` is bound
Place(f, it, character) ==
    LET kerning_value ==
            FindKerning(f.kerning_values, it.prev_char_id, character.id)
        page_rect == [x |-> AsI32(character.x), y |-> AsI32(character.y),
                      width |-> character.width, height |-> character.height]
        screen_rect == [x |-> ScreenX(it.x, character, kerning_value),
                        y |-> ScreenY(f, it.y, character),
                        width |-> character.width, height |-> character.height]
    IN  [it |-> [it EXCEPT !.x = AdvanceX(it.x, character, kerning_value),
                           !.prev_char_id = character.id],
         item |-> [kind |-> "Ok", err |-> "", c |-> character.id,
                   position |-> [page_rect |-> page_rect,
                                 screen_rect |-> screen_rect,
                                 page_index |-> character.page_index],
                   character |-> character, kerning_value |-> kerning_value,
                   pen_x |-> it.x, pen_y |-> it.y]]

\* mutant: an error item forgets the previous character
Resolved_ErrForgetsPrev(f, it, r) ==
    IF r.ret = "Ok" THEN Place(f, it, r.found)
    ELSE [it |-> [it EXCEPT !.prev_char_id = 0], item |-> ErrItem(r.ret, r.c)]

\* the outcome of a Some(..) of TextLine::next inside next()
Resolved(f, it, r) ==
    IF r.ret = "Ok" THEN Place(f, it, r.found)
    ELSE [it |-> it, item |-> ErrItem(r.ret, r.c)]

\* self.text_line = self.text_lines.next()?; self.x = 0; self.y +-= line_height
AdvanceLine(f, it) ==
    [it EXCEPT !.text_line = Head(it.text_lines),
               !.text_lines = Tail(it.text_lines),
               !.x = 0,
               !.y = AdvanceY(f, it.y)]

\* CharPositions::next on the iterator `it` over font f
CharPositionsNext(f, it) ==
    LET r1 == TextLineNext(f.characters, it.text_line)
    IN  IF r1.ret # "None"
        THEN Resolved(f, [it EXCEPT !.text_line = r1.chars], r1)
        ELSE IF it.text_lines = <<>>
        THEN [it |-> it, item |-> NoneItem]
        ELSE LET adv == AdvanceLine(f, it)
                 r2 == TextLineNext(f.characters, adv.text_line)
             IN  IF r2.ret = "None"
                 THEN [it |-> adv, item |-> NoneItem]
                 ELSE Resolved(f, [adv EXCEPT !.text_line = r2.chars], r2)

(* ----------------------------- BMFont::new ----------------------------- *)
\* A whitespace-split token of the common line: a number, or not one (the
\* section tag, or a field that does not parse).
Num(v) == [numeric |-> TRUE, value |-> v]
NotANumber == [numeric |-> FALSE, value |-> 0]
NoToken == [numeric |-> FALSE, value |-> -1]

\* A page, char or kerning line of the source: the record it parses to, or
\* the name of its field that is missing or does not parse.
Good(rec) == [bad_field |-> "", rec |-> rec]
Bad(field, rec) == [bad_field |-> field, rec |-> rec]

\* the common lines of a source: the tag, then up to two tokens
CommonSections ==
    {<<NotANumber>> \o rest : rest \in SeqsUpTo({Num(12), Num(10), NotANumber}, 2)}

PageSections == {<<>>, <<Good(Page0)>>, <<Bad("id", Page0)>>}
CharSections ==
    SeqsUpTo({Good(CharA), Good(CharB), Bad("xadvance", CharA)}, MaxChars)
KerningSections ==
    SeqsUpTo({Good(KernAA), Bad("amount", KernAA)}, MaxKern)

\* what the byte source holds; common = <<>> when it has no common line
UnreadableSource ==
    [readable |-> FALSE, common |-> <<>>, pages |-> <<>>, chars |-> <<>>,
     kernings |-> <<>>]
Sources ==
    {UnreadableSource} \cup
    [readable : {TRUE},
     common : CommonSections \cup {<<>>},
     pages : PageSections,
     chars : CharSections,
     kernings : KerningSections]

NoErr == [section |-> "", field |-> ""]
ParseErr(section, field) == [section |-> section, field |-> field]

\* Sections::new
SectionsNew(src) ==
    IF ~src.readable THEN [ok |-> FALSE, err |-> ParseErr("io", "")]
    ELSE IF src.common = <<>>
    THEN [ok |-> FALSE, err |-> ParseErr("common", "")]
    ELSE [ok |-> TRUE, err |-> NoErr]

\* utils::extract_component_value
ExtractComponentValue(token, section, field) ==
    IF token.numeric THEN [ok |-> TRUE, value |-> token.value, err |-> NoErr]
    ELSE [ok |-> FALSE, value |-> 0, err |-> ParseErr(section, field)]

\* Page::new, Char::new and KerningValue::new
PageNew(line) ==
    IF line.bad_field = "" THEN [ok |-> TRUE, rec |-> line.rec, err |-> NoErr]
    ELSE [ok |-> FALSE, rec |-> line.rec, err |-> ParseErr("page", line.bad_field)]
CharNew(line) ==
    IF line.bad_field = "" THEN [ok |-> TRUE, rec |-> line.rec, err |-> NoErr]
    ELSE [ok |-> FALSE, rec |-> line.rec, err |-> ParseErr("char", line.bad_field)]
KerningValueNew(line) ==
    IF line.bad_field = "" THEN [ok |-> TRUE, rec |-> line.rec, err |-> NoErr]
    ELSE [ok |-> FALSE, rec |-> line.rec, err |-> ParseErr("kerning", line.bad_field)]

\* mutant: the tag is not skipped, lineHeight is read from the first token
LineHeightComponent_TagNotSkipped(components) ==
    IF Len(components) >= 1 THEN components[1] ELSE NoToken

\* components.next(); components.next(): the token lineHeight is read from
LineHeightComponent(components) ==
    IF Len(components) >= 2 THEN components[2] ELSE NoToken

\* the next components.next(): the token base is read from
BaseComponent(components) ==
    IF Len(components) >= 3 THEN components[3] ELSE NoToken

\* mutant: a line that does not parse is left out and the loop goes on
CollectUntilErr_SkipsBad(results) ==
    [ok |-> TRUE,
     recs |-> LET good == SelectSeq(results, LAMBDA r : r.ok)
              IN  [i \in 1..Len(good) |-> good[i].rec],
     err |-> NoErr,
     calls |-> Len(results)]

\* for section in sections { v.push(try!(parse(section))) } over the parse
\* results, taken in order up to the first error; calls counts the parses
CollectUntilErr(results) ==
    LET bad == {i \in 1..Len(results) : ~results[i].ok}
    IN  IF bad = {}
        THEN [ok |-> TRUE,
              recs |-> [i \in 1..Len(results) |-> results[i].rec],
              err |-> NoErr,
              calls |-> Len(results)]
        ELSE LET m == CHOOSE i \in bad : \A j \in bad : i <= j
             IN  [ok |-> FALSE, recs |-> <<>>, err |-> results[m].err,
                  calls |-> m]

\* n times the label
Times(label, n) == [i \in 1..n |-> label]

NoFont ==
    [base_height |-> 0, line_height |-> 0, pages |-> <<>>, characters |-> <<>>,
     kerning_values |-> <<>>, ordinate_orientation |-> "TopToBottom"]

\* Err(err) of BMFont::new after the parses `calls`
Failed(err, calls) == [ok |-> FALSE, font |-> NoFont, err |-> err, calls |-> calls]

\* BMFont::new: the Result, and the parses made in order
BMFontNewOf(src, ordinate_orientation) ==
    LET sections == SectionsNew(src)
        components == src.common
        line_height ==
            ExtractComponentValue(LineHeightComponent(components),
                                  "common", "lineHeight")
        base_height ==
            ExtractComponentValue(BaseComponent(components), "common", "base")
        pages == CollectUntilErr([i \in 1..Len(src.pages) |-> PageNew(src.pages[i])])
        characters ==
            CollectUntilErr([i \in 1..Len(src.chars) |-> CharNew(src.chars[i])])
        kerning_values ==
            CollectUntilErr([i \in 1..Len(src.kernings) |->
                                KerningValueNew(src.kernings[i])])
        c1 == <<"lineHeight">>
        c2 == c1 \o <<"base">>
        c3 == c2 \o Times("page", pages.calls)
        c4 == c3 \o Times("char", characters.calls)
        c5 == c4 \o Times("kerning", kerning_values.calls)
    IN  IF ~sections.ok THEN Failed(sections.err, <<>>)
        ELSE IF ~line_height.ok THEN Failed(line_height.err, c1)
        ELSE IF ~base_height.ok THEN Failed(base_height.err, c2)
        ELSE IF ~pages.ok THEN Failed(pages.err, c3)
        ELSE IF ~characters.ok THEN Failed(characters.err, c4)
        ELSE IF ~kerning_values.ok THEN Failed(kerning_values.err, c5)
        ELSE [ok |-> TRUE,
              font |-> [base_height |-> base_height.value,
                        line_height |-> line_height.value,
                        pages |-> pages.recs,
                        characters |-> characters.recs,
                        kerning_values |-> kerning_values.recs,
                        ordinate_orientation |-> ordinate_orientation],
              err |-> NoErr,
              calls |-> c5]

NoBuilt == Failed(NoErr, <<>>)

(* ------------------------------- state --------------------------------- *)
VARIABLES
    font,         \* the constructed BMFont
    string,       \* the &str given to char_positions
    pc,           \* "unbuilt": before BMFont::new; "failed": it gave Err;
                  \* "ready": no sequence yet; "iter": a CharPositions lives;
                  \* "panicked": char_positions panicked
    iter,         \* the CharPositions: text_lines, text_line, x, y, prev_char_id
    out,          \* what each next() request so far gave back, with the line
                  \* and column (0-based) of the code point it consumed
    source,       \* the source given to BMFont::new
    built,        \* what BMFont::new returned, and the parses it made
    other         \* a second sequence on the same font: its string, pc,
                  \* iter and out

vars == <<font, string, pc, iter, out, source, built, other>>

NoIter == [text_lines |-> <<>>, text_line |-> <<>>, x |-> 0, y |-> 0,
           prev_char_id |-> 0]

NoOther == [string |-> <<>>, pc |-> "ready", iter |-> NoIter, out |-> <<>>]

Init ==
    /\ font \in Fonts
    /\ string = <<>>
    /\ pc = "ready"
    /\ iter = NoIter
    /\ out = <<>>
    /\ source = UnreadableSource
    /\ built = NoBuilt
    /\ other = NoOther

\* CharPositions::new via BMFont::char_positions; unwrap() of no first
\* line panics
CharPositionsNew(s) ==
    /\ pc = "ready"
    /\ string' = s
    /\ IF Lines(s) = <<>>
       THEN /\ pc' = "panicked"
            /\ iter' = iter
       ELSE /\ pc' = "iter"
            /\ iter' = [text_lines |-> Tail(Lines(s)),
                        text_line |-> Head(Lines(s)),
                        x |-> 0, y |-> 0, prev_char_id |-> 0]
    /\ UNCHANGED <<font, out, source, built, other>>

\* 0-based index of the line the iterator it is in
LineOf(s, it) == Len(Lines(s)) - Len(it.text_lines) - 1

\* number of code points of that line already consumed
ColOf(s, it) == Len(Lines(s)[LineOf(s, it) + 1]) - Len(it.text_line)

\* one next() request on the sequence
NextItem ==
    /\ pc = "iter"
    /\ Len(out) < Len(string) + ExtraCalls
    /\ LET r == CharPositionsNext(font, iter)
       IN  /\ iter' = r.it
           /\ out' = Append(out, [item |-> r.item,
                                  line |-> LineOf(string, r.it),
                                  col |-> ColOf(string, r.it) - 1])
    /\ UNCHANGED <<font, string, pc, source, built, other>>

Next ==
    \/ \E s \in Texts : CharPositionsNew(s)
    \/ NextItem

Spec == Init /\ [][Next]_vars

TypeOK ==
    /\ font \in Fonts
    /\ string \in Texts
    /\ pc \in {"ready", "iter", "panicked"}
    /\ Len(out) <= MaxLen + ExtraCalls

(* --------------------- reading the recorded requests ------------------- *)
Kind(i) == out[i].item.kind
OkAt(i) == Kind(i) = "Ok"
Calls == 1..Len(out)

\* the code points of s that are not line terminators
NonLF(s) == SelectSeq(s, LAMBDA c : c # LF)

\* the code points carried by the items (not the Nones) of requests 1..n
RECURSIVE CodesUpTo(_)
CodesUpTo(n) ==
    IF n = 0 THEN <<>>
    ELSE CodesUpTo(n - 1) \o (IF Kind(n) = "None" THEN <<>> ELSE <<out[n].item.c>>)

IsPrefix(a, b) == Len(a) <= Len(b) /\ SubSeq(b, 1, Len(a)) = a

\* 1-based index in s of the code point at (line, col), both 0-based
RECURSIVE LineStart(_, _)
LineStart(s, line) ==
    IF line = 0 THEN 0
    ELSE LineStart(s, line - 1) + Len(Lines(s)[line]) + 1
TextIndex(i) == LineStart(string, out[i].line) + out[i].col + 1

\* requests before i that resolved a character of the same line
SameLineBefore(i) == {j \in 1..(i - 1) : OkAt(j) /\ out[j].line = out[i].line}

RECURSIVE SumAdvances(_)
\* sum of xadvance + kerning_value over the requests of J
SumAdvances(J) ==
    IF J = {} THEN 0
    ELSE LET j == CHOOSE k \in J : TRUE
         IN  out[j].item.character.xadvance + out[j].item.kerning_value
             + SumAdvances(J \ {j})

\* pen x of request i as the claim defines it
LinePenX(i) == SumAdvances(SameLineBefore(i))

\* pen y of line k (0-based) as the claim defines it
LinePenY(k) ==
    IF font.ordinate_orientation = "TopToBottom"
    THEN k * font.line_height
    ELSE 0 - k * font.line_height

ScreenRect(i) == out[i].item.position.screen_rect

(* ------------------------------- claims -------------------------------- *)

\* C1: char_positions("") gives a sequence that is immediately exhausted:
\* no panic on creation, and its first request yields no item and no error.
C1_EmptyStringIsExhausted ==
    (pc # "ready" /\ string = <<>>) =>
        /\ pc = "iter"
        /\ (out # <<>> => Kind(1) = "None")

\* C2: the first end-of-sequence comes only when no line remains: the items
\* yielded before it are, in order, the code points of the text other than
\* line terminators.
C2_EndOnlyWhenNoLinesRemain ==
    \A n \in Calls :
        (Kind(n) = "None" /\ \A m \in 1..(n - 1) : Kind(m) # "None") =>
            CodesUpTo(n - 1) = NonLF(string)

\* C3: every resolved character has screen_rect.x = pen_x + xoffset +
\* kerning_value, pen_x being the sum of xadvance + kerning_value over the
\* characters resolved before it on its line; with A alone and no kerning
\* pairs, "AA" is placed at x = 0 and x = 10.
C3_ScreenX ==
    /\ \A i \in Calls :
          OkAt(i) =>
              ScreenRect(i).x =
                  LinePenX(i) + out[i].item.character.xoffset
                  + out[i].item.kerning_value
    /\ (/\ font.characters = <<CharA>>
        /\ font.kerning_values = <<>>
        /\ string = <<65, 65>>
        /\ Len(out) >= 2) =>
           /\ OkAt(1) /\ ScreenRect(1).x = 0
           /\ OkAt(2) /\ ScreenRect(2).x = 10

\* a kerned character that is not the first of its line has been placed
C3_Witness ==
    \E i \in Calls :
        OkAt(i) /\ out[i].item.kerning_value # 0 /\ LinePenX(i) # 0

\* the font and text of the kerning example, both positions produced
KernedAA ==
    /\ font.characters = <<CharA>>
    /\ font.kerning_values = <<KernAA>>
    /\ string = <<65, 65>>
    /\ Len(out) = 2

\* C4 as stated: after the two positions of "AA" with kerning (65,65,-2),
\* the second at x = 8, the pen x held for a following character is 16.
C4_PenAfterAA_Stated ==
    KernedAA => (OkAt(2) /\ ScreenRect(2).x = 8 /\ iter.x = 16)

\* C4 amended: after the two positions of "AA" with kerning (65,65,-2), the
\* second at x = 8, the pen x held for a following character is 18, the pen
\* x of the second A (10) advanced by 10 + (-2).
C4_PenAfterAA ==
    KernedAA => (OkAt(2) /\ ScreenRect(2).x = 8 /\ iter.x = 18)

C4_Witness == KernedAA /\ OkAt(1) /\ OkAt(2)

\* C5: a kerning value is applied to a resolved character only when, in the
\* text, the code point right before it is the pair's first id and the
\* character is the pair's second id (no line break or errored character
\* between them).  Stated of the characters that follow a resolved one; the
\* first resolved character is C6's.
C5_KerningOnlyWhenAdjacent ==
    \A i \in Calls :
        (/\ OkAt(i)
         /\ out[i].item.kerning_value # 0
         /\ \E j \in 1..(i - 1) : OkAt(j)) =>
            /\ TextIndex(i) > 1
            /\ \E n \in 1..Len(font.kerning_values) :
                  LET k == font.kerning_values[n]
                  IN  /\ k.first_char_id = string[TextIndex(i) - 1]
                      /\ k.second_char_id = string[TextIndex(i)]
                      /\ k.value = out[i].item.kerning_value

\* C6: whatever kerning pairs the font holds, the first resolved character
\* of a sequence gets kerning value 0, so its screen_rect.x is its xoffset.
C6_FirstCharacterUnkerned ==
    \A i \in Calls :
        (OkAt(i) /\ \A j \in 1..(i - 1) : ~OkAt(j)) =>
            /\ out[i].item.kerning_value = 0
            /\ ScreenRect(i).x = out[i].item.character.xoffset

\* C7: a character of line k (0-based, empty lines counted) is placed with
\* pen_y = +k*line_height (TopToBottom) or -k*line_height (BottomToTop), and
\* pen_x is 0 after each line advance; in "A\nA" the second A's y differs
\* from the first A's by one line_height, signed by the orientation.
C7_PenYOfLine ==
    /\ \A i \in Calls :
          OkAt(i) =>
              /\ out[i].item.pen_y = LinePenY(out[i].line)
              /\ (SameLineBefore(i) = {} => out[i].item.pen_x = 0)
    /\ (pc = "iter" /\
        \A j \in Calls : ~(OkAt(j) /\ out[j].line = LineOf(string, iter))) =>
           iter.x = 0
    /\ (string = <<65, LF, 65>> /\ Len(out) >= 2 /\ OkAt(1) /\ OkAt(2)) =>
           ScreenRect(2).y - ScreenRect(1).y =
               IF font.ordinate_orientation = "TopToBottom"
               THEN font.line_height ELSE 0 - font.line_height

\* a character of the third line, after an empty line, placed bottom-to-top
C7_Witness ==
    /\ font.ordinate_orientation = "BottomToTop"
    /\ \E i \in Calls : OkAt(i) /\ out[i].line = 2 /\ out[i].item.pen_y # 0

(* ----------------------- a sequence consumed alone --------------------- *)
RECURSIVE Drain(_, _, _)
\* what n next() requests on the iterator it give back
Drain(f, it, n) ==
    IF n = 0 THEN <<>>
    ELSE LET r == CharPositionsNext(f, it)
         IN  <<r.item>> \o Drain(f, r.it, n - 1)

\* the items (not the Nones) of char_positions(s) consumed until no line
\* remains: every request consumes a code point or a line, so Len(s) + 1
\* requests reach the end.  No items when char_positions(s) panics.
Yielded(f, s) ==
    IF Lines(s) = <<>> THEN <<>>
    ELSE SelectSeq(Drain(f, [text_lines |-> Tail(Lines(s)),
                             text_line |-> Head(Lines(s)),
                             x |-> 0, y |-> 0, prev_char_id |-> 0],
                         Len(s) + 1),
                   LAMBDA e : e.kind # "None")

RemoveAt(s, p) == SubSeq(s, 1, p - 1) \o SubSeq(s, p + 1, Len(s))

\* a code point of one UTF-16 unit that matches no Char.id of the font
IsMissing(f, c) == c # LF /\ c < 65536 /\ \A n \in 1..Len(f.characters) : f.characters[n].id # c

\* C8: a code point that matches no Char.id yields exactly one
\* MissingCharacter item carrying it, at its place in the output order, and
\* the sequence goes on: the other items are those of the text without it.
C8_MissingCharacterIsSkipped ==
    /\ IsPrefix(CodesUpTo(Len(out)), NonLF(string))
    /\ \A i \in Calls :
          Kind(i) # "None" =>
              (IsMissing(font, string[TextIndex(i)]) <=>
                  /\ Kind(i) = "Err"
                  /\ out[i].item.err = "MissingCharacter"
                  /\ out[i].item.c = string[TextIndex(i)])
    /\ (pc = "iter" /\ out = <<>>) =>
          \A p \in 1..Len(string) :
              IsMissing(font, string[p]) =>
                  Yielded(font, RemoveAt(string, p)) =
                      RemoveAt(Yielded(font, string),
                               Len(NonLF(SubSeq(string, 1, p))))

\* a MissingCharacter item between two resolved characters, the second one
\* kerned against the first
C8_Witness ==
    \E i \in Calls :
        /\ i + 2 <= Len(out)
        /\ OkAt(i)
        /\ out[i + 1].item.err = "MissingCharacter"
        /\ OkAt(i + 2)
        /\ out[i + 2].item.kerning_value # 0

\* C9: a code point of more than one UTF-16 unit yields exactly one
\* UnsupportedCharacter item carrying it, also when a Char of the font has
\* its id; the cursor moves past it and the later characters are yielded.
C9_UnsupportedCharacter ==
    /\ IsPrefix(CodesUpTo(Len(out)), NonLF(string))
    /\ \A i \in Calls :
          Kind(i) # "None" =>
              (string[TextIndex(i)] >= 65536 <=>
                  /\ Kind(i) = "Err"
                  /\ out[i].item.err = "UnsupportedCharacter"
                  /\ out[i].item.c = string[TextIndex(i)])
    /\ (pc = "iter" /\ out = <<>>) =>
          LET all == Yielded(font, string)
          IN  /\ Len(all) = Len(NonLF(string))
              /\ \A n \in 1..Len(all) : all[n].c = NonLF(string)[n]

\* the font holds a Char with id U+10000, and an UnsupportedCharacter item
\* for U+10000 is followed by a resolved character
C9_Witness ==
    /\ \E n \in 1..Len(font.characters) : font.characters[n].id = 65536
    /\ \E i \in Calls :
          /\ i + 1 <= Len(out)
          /\ out[i].item.err = "UnsupportedCharacter"
          /\ out[i].item.c = 65536
          /\ OkAt(i + 1)

\* C10: every resolved character has screen_rect.y = pen_y + base_height -
\* yoffset - height (BottomToTop) or pen_y + yoffset (TopToBottom), pen_y
\* being the pen y of its line.
C10_ScreenY ==
    \A i \in Calls :
        OkAt(i) =>
            LET ch == out[i].item.character
            IN  ScreenRect(i).y =
                    IF font.ordinate_orientation = "BottomToTop"
                    THEN LinePenY(out[i].line) + font.base_height
                         - ch.yoffset - ch.height
                    ELSE LinePenY(out[i].line) + ch.yoffset

\* a character with a y offset placed bottom-to-top on a line after the first
C10_Witness ==
    /\ font.ordinate_orientation = "BottomToTop"
    /\ \E i \in Calls :
          OkAt(i) /\ out[i].line >= 1 /\ out[i].item.character.yoffset # 0

(* ------------------- fonts with duplicate records ---------------------- *)
\* fonts whose source repeats a char id and a kerning pair, in either order
DupFonts ==
    [base_height : {10},
     line_height : {12},
     pages : {<<Page0, Page1>>},
     characters : {<<CharA, CharA2>>, <<CharA2, CharA>>, <<CharB, CharA2, CharA>>},
     kerning_values : {<<KernAA, KernAA2>>, <<KernAA2, KernAA>>,
                       <<KernAB, KernAA2, KernAA>>},
     ordinate_orientation : Orientations]

InitDup ==
    /\ font \in DupFonts
    /\ string = <<>>
    /\ pc = "ready"
    /\ iter = NoIter
    /\ out = <<>>
    /\ source = UnreadableSource
    /\ built = NoBuilt
    /\ other = NoOther

SpecDup == InitDup /\ [][Next]_vars

\* id of the character resolved last before request i, 0 if none: the
\* prev_char_id request i looks kerning up with
PrevId(i) ==
    LET before == {j \in 1..(i - 1) : OkAt(j)}
    IN  IF before = {} THEN 0
        ELSE out[CHOOSE j \in before : \A k \in before : k <= j].item.c

\* C11: with several Chars of one id, or several kerning values of one
\* (first, second) pair, every lookup of the layout uses the first matching
\* record in source order.
C11_FirstMatchWins ==
    \A i \in Calls :
        OkAt(i) =>
            /\ \E m \in 1..Len(font.characters) :
                  /\ font.characters[m].id = string[TextIndex(i)]
                  /\ \A n \in 1..(m - 1) :
                        font.characters[n].id # string[TextIndex(i)]
                  /\ out[i].item.character = font.characters[m]
                  /\ out[i].item.position.page_index = font.characters[m].page_index
            /\ \A m \in 1..Len(font.kerning_values) :
                  (/\ font.kerning_values[m].first_char_id = PrevId(i)
                   /\ font.kerning_values[m].second_char_id = out[i].item.c
                   /\ \A n \in 1..(m - 1) :
                         ~(/\ font.kerning_values[n].first_char_id = PrevId(i)
                           /\ font.kerning_values[n].second_char_id = out[i].item.c))
                  => out[i].item.kerning_value = font.kerning_values[m].value

\* a character whose id two Chars share, kerned by a pair two kerning
\* values share, the first records not being the last in the source
C11_Witness ==
    /\ font.characters[1].id = font.characters[2].id
    /\ font.kerning_values[1].first_char_id = font.kerning_values[2].first_char_id
    /\ font.kerning_values[1].second_char_id = font.kerning_values[2].second_char_id
    /\ \E i \in Calls :
          /\ OkAt(i)
          /\ out[i].item.character = font.characters[1]
          /\ out[i].item.kerning_value = font.kerning_values[1].value

(* --------------------------- construction ------------------------------ *)
InitNew ==
    /\ font = NoFont
    /\ string = <<>>
    /\ pc = "unbuilt"
    /\ iter = NoIter
    /\ out = <<>>
    /\ source \in Sources
    /\ built = NoBuilt
    /\ other = NoOther

\* BMFont::new(source, ordinate_orientation)
BMFontNew(ordinate_orientation) ==
    /\ pc = "unbuilt"
    /\ built' = BMFontNewOf(source, ordinate_orientation)
    /\ font' = built'.font
    /\ pc' = IF built'.ok THEN "ready" ELSE "failed"
    /\ UNCHANGED <<string, iter, out, source, other>>

NextNew == \E o \in Orientations : BMFontNew(o)

SpecNew == InitNew /\ [][NextNew]_vars

\* the parses BMFont::new has to make of a source with a common line, in
\* the order of the claim: lineHeight, base, pages, chars, kernings
ParseSteps(src) ==
    <<[label |-> "lineHeight",
       res |-> ExtractComponentValue(
                   IF Len(src.common) >= 2 THEN src.common[2] ELSE NoToken,
                   "common", "lineHeight")],
      [label |-> "base",
       res |-> ExtractComponentValue(
                   IF Len(src.common) >= 3 THEN src.common[3] ELSE NoToken,
                   "common", "base")]>>
    \o [i \in 1..Len(src.pages) |-> [label |-> "page", res |-> PageNew(src.pages[i])]]
    \o [i \in 1..Len(src.chars) |-> [label |-> "char", res |-> CharNew(src.chars[i])]]
    \o [i \in 1..Len(src.kernings) |->
           [label |-> "kerning", res |-> KerningValueNew(src.kernings[i])]]

Labels(steps) == [i \in 1..Len(steps) |-> steps[i].label]

Constructed == pc \in {"ready", "failed"} /\ SectionsNew(source).ok

\* C12: BMFont::new parses lineHeight, base, then every page, char and
\* kerning line in source order; it returns the first error met and parses
\* nothing after it, and returns a font only when every parse succeeded: the
\* whole font, never a part of it.
C12_FailFastAndAtomic ==
    Constructed =>
        LET steps == ParseSteps(source)
            bad == {i \in 1..Len(steps) : ~steps[i].res.ok}
        IN  IF bad = {}
            THEN /\ built.ok /\ pc = "ready"
                 /\ built.calls = Labels(steps)
                 /\ Len(font.pages) = Len(source.pages)
                 /\ Len(font.characters) = Len(source.chars)
                 /\ Len(font.kerning_values) = Len(source.kernings)
                 /\ \A i \in 1..Len(source.pages) : font.pages[i] = source.pages[i].rec
                 /\ \A i \in 1..Len(source.chars) :
                       font.characters[i] = source.chars[i].rec
                 /\ \A i \in 1..Len(source.kernings) :
                       font.kerning_values[i] = source.kernings[i].rec
            ELSE LET m == CHOOSE i \in bad : \A j \in bad : i <= j
                 IN  /\ ~built.ok /\ pc = "failed"
                     /\ built.err = steps[m].res.err
                     /\ built.calls = Labels(SubSeq(steps, 1, m))
                     /\ built.font = NoFont /\ font = NoFont

\* construction failed on a char line that is followed by a later line that
\* does not parse either, after lines that parsed
C12_Witness ==
    /\ pc = "failed"
    /\ built.err.section = "char"
    /\ Len(built.calls) < Len(ParseSteps(source))
    /\ \E i \in 1..Len(source.kernings) : source.kernings[i].bad_field # ""
    /\ \E i \in 1..Len(source.pages) : source.pages[i].bad_field = ""

\* a source whose every line parses, with lineHeight and base in the common line
WellFormed(src) ==
    /\ SectionsNew(src).ok
    /\ Len(src.common) >= 3 /\ src.common[2].numeric /\ src.common[3].numeric
    /\ \A i \in 1..Len(src.pages) : src.pages[i].bad_field = ""
    /\ \A i \in 1..Len(src.chars) : src.chars[i].bad_field = ""
    /\ \A i \in 1..Len(src.kernings) : src.kernings[i].bad_field = ""

\* C13 as stated: construction of a well-formed source succeeds, base_height()
\* is the value of the 2nd token of the common line and line_height() that
\* of the 3rd.
C13_CommonMetrics_Stated ==
    (pc # "unbuilt" /\ WellFormed(source)) =>
        /\ built.ok /\ pc = "ready"
        /\ font.base_height = source.common[2].value
        /\ font.line_height = source.common[3].value

\* C13 amended: construction of a well-formed source succeeds, line_height()
\* is the value of the 2nd token of the common line and base_height() that
\* of the 3rd.
C13_CommonMetrics ==
    (pc # "unbuilt" /\ WellFormed(source)) =>
        /\ built.ok /\ pc = "ready"
        /\ font.line_height = source.common[2].value
        /\ font.base_height = source.common[3].value

\* a font built from a common line whose 2nd and 3rd tokens differ
C13_Witness ==
    /\ pc = "ready"
    /\ WellFormed(source)
    /\ source.common[2].value # source.common[3].value
    /\ source.chars # <<>>

(* ---------------------- two sequences on one font ---------------------- *)
\* the fonts and strings of the runs with two sequences
PairFonts ==
    {f \in Fonts : f.characters = <<CharA, CharB>>
                   /\ f.kerning_values \in {<<KernAA>>, <<KernAB>>}}
PairTexts ==
    {<<65, 65>>, <<65, 66>>, <<65, LF, 65>>, <<LF, LF, 65>>, <<66, 65536, 65>>}

InitPair ==
    /\ font \in PairFonts
    /\ string = <<>>
    /\ pc = "ready"
    /\ iter = NoIter
    /\ out = <<>>
    /\ source = UnreadableSource
    /\ built = NoBuilt
    /\ other = NoOther

\* CharPositions::new for the second sequence
CharPositionsNewOther(s) ==
    /\ pc # "panicked"
    /\ other.pc = "ready"
    /\ other' =
          IF Lines(s) = <<>>
          THEN [other EXCEPT !.string = s, !.pc = "panicked"]
          ELSE [string |-> s, pc |-> "iter",
                iter |-> [text_lines |-> Tail(Lines(s)),
                          text_line |-> Head(Lines(s)),
                          x |-> 0, y |-> 0, prev_char_id |-> 0],
                out |-> <<>>]
    /\ UNCHANGED <<font, string, pc, iter, out, source, built>>

\* mutant: the previous character id is one cell shared by all sequences
NextItemOther_SharedPrev ==
    /\ other.pc = "iter"
    /\ Len(other.out) < Len(other.string) + ExtraCalls
    /\ LET r == CharPositionsNext(font, other.iter)
       IN  /\ other' =
                 [other EXCEPT
                    !.iter = r.it,
                    !.out = Append(other.out,
                                   [item |-> r.item,
                                    line |-> LineOf(other.string, r.it),
                                    col |-> ColOf(other.string, r.it) - 1])]
           /\ iter' = [iter EXCEPT !.prev_char_id = r.it.prev_char_id]
    /\ UNCHANGED <<font, string, pc, out, source, built>>

\* one next() request on the second sequence
NextItemOther ==
    /\ other.pc = "iter"
    /\ Len(other.out) < Len(other.string) + ExtraCalls
    /\ LET r == CharPositionsNext(font, other.iter)
       IN  other' =
              [other EXCEPT
                 !.iter = r.it,
                 !.out = Append(other.out,
                                [item |-> r.item,
                                 line |-> LineOf(other.string, r.it),
                                 col |-> ColOf(other.string, r.it) - 1])]
    /\ UNCHANGED <<font, string, pc, iter, out, source, built>>

NextPair ==
    \/ \E s \in PairTexts : CharPositionsNew(s)
    \/ NextItem
    \/ \E s \in PairTexts : CharPositionsNewOther(s)
    \/ NextItemOther

SpecPair == InitPair /\ [][NextPair]_vars

\* what the first n requests give back on char_positions(s) consumed alone
Alone(f, s, n) ==
    Drain(f, [text_lines |-> Tail(Lines(s)), text_line |-> Head(Lines(s)),
              x |-> 0, y |-> 0, prev_char_id |-> 0], n)

ItemsOf(o) == [i \in 1..Len(o) |-> o[i].item]

\* C14: sequences obtained from one font are independent: under every
\* interleaving of their requests each yields the items it yields when
\* consumed alone, and no request changes the font.
C14_SequencesIndependent ==
    /\ [](/\ pc = "iter" => ItemsOf(out) = Alone(font, string, Len(out))
          /\ other.pc = "iter" =>
                ItemsOf(other.out) = Alone(font, other.string, Len(other.out)))
    /\ [][font' = font]_vars

\* both sequences, over different strings, have each resolved two characters
C14_Witness ==
    /\ pc = "iter" /\ other.pc = "iter"
    /\ string # other.string
    /\ Len(out) >= 2 /\ OkAt(1) /\ OkAt(2)
    /\ Len(other.out) >= 2
    /\ other.out[1].item.kind = "Ok" /\ other.out[2].item.kind = "Ok"

(* ------------------------ frame of one request ------------------------- *)
\* C15: every resolved character has page_rect = {char.x, char.y,
\* char.width, char.height}, screen_rect.width/height = char.width/height and
\* page_index = char.page_index, whatever the orientation, the pen, the
\* kerning value and the characters before it.
C15_AtlasRectangle ==
    \A i \in Calls :
        OkAt(i) =>
            LET ch == out[i].item.character
                p == out[i].item.position
            IN  /\ ch.id = string[TextIndex(i)]
                /\ \E n \in 1..Len(font.characters) : font.characters[n] = ch
                /\ p.page_rect = [x |-> ch.x, y |-> ch.y,
                                  width |-> ch.width, height |-> ch.height]
                /\ p.screen_rect.width = ch.width
                /\ p.screen_rect.height = ch.height
                /\ p.page_index = ch.page_index

\* a kerned character, not the first of its line, off the atlas origin and
\* off page 0, placed bottom-to-top
C15_Witness ==
    /\ font.ordinate_orientation = "BottomToTop"
    /\ \E i \in Calls :
          /\ OkAt(i)
          /\ out[i].item.kerning_value # 0
          /\ out[i].item.pen_x # 0
          /\ out[i].item.character.y # 0
          /\ out[i].item.character.page_index # 0

\* the step is a next() request of the first sequence that gave an error item
ErrRequest ==
    /\ Len(out') = Len(out) + 1
    /\ out'[Len(out')].item.kind = "Err"

\* C17: a request that yields an error item leaves prev_char_id unchanged
\* and advances pen_x by no character advance; the pen changes only by the
\* line advance (pen_x = 0, pen_y one line_height further) when the
\* offending character is the first of a new line.
C17_ErrorItemFrame ==
    [][ErrRequest =>
          /\ iter'.prev_char_id = iter.prev_char_id
          /\ IF Len(iter'.text_lines) # Len(iter.text_lines)
             THEN /\ out'[Len(out')].col = 0
                  /\ out'[Len(out')].line = LineOf(string, iter) + 1
                  /\ iter'.x = 0
                  /\ iter'.y - iter.y =
                        IF font.ordinate_orientation = "TopToBottom"
                        THEN font.line_height ELSE 0 - font.line_height
             ELSE /\ iter'.x = iter.x
                  /\ iter'.y = iter.y]_vars

\* an error item for the first character of a new line, after a character
\* was resolved on the line before
C17_Witness ==
    /\ out # <<>>
    /\ Kind(Len(out)) = "Err"
    /\ out[Len(out)].line >= 1
    /\ out[Len(out)].col = 0
    /\ iter.prev_char_id # 0
    /\ iter.x = 0

\* C18: once a request has reported end-of-sequence, every later request on
\* the sequence reports it too, yields no item and leaves pen_x, pen_y and
\* prev_char_id unchanged.
C18_ExhaustionIsTerminal ==
    [][(/\ out # <<>>
        /\ Kind(Len(out)) = "None"
        /\ Len(out') = Len(out) + 1) =>
          /\ out'[Len(out')].item.kind = "None"
          /\ iter'.x = iter.x
          /\ iter'.y = iter.y
          /\ iter'.prev_char_id = iter.prev_char_id]_vars

====
